---- MODULE Spec2Model ----
(***************************************************************************)
(* Model of cli/cmd/profile.go: the `linkerd profile --open-api` command,  *)
(* which renders an OpenAPI document as a ServiceProfile.                  *)
(*                                                                         *)
(* Go strings are modelled as sequences of one-character strings, so that  *)
(* escaping, pattern substitution, concatenation and byte-order sorting    *)
(* are computed character by character, as the code computes them.         *)
(* A nil pointer / absent value is the empty sequence Nil, a present one   *)
(* is the one-element sequence Some(x).                                    *)
(***************************************************************************)
EXTENDS Integers, Sequences, FiniteSets, TLC

VARIABLES
    \* renderOpenAPI (one invocation of the command)
    pc,         \* position inside renderOpenAPI
    openAPI,    \* options.openAPI: "-" (stdin) or a file name
    swagger,    \* the parsed spec.Swagger
    routes,     \* the routes slice
    written,    \* what has been passed to w.Write, in order
    err,        \* the error renderOpenAPI returned ("" while running / nil)
    trace,      \* the stages entered so far, in order
    \* pathToRegex applied to one template
    path,       \* the path template
    escaped,    \* regexp.QuoteMeta(path)
    pathRegex,  \* the returned pattern
    \* toRspClasses applied to one responses collection
    responses,  \* *spec.Responses: Nil or Some(set of status codes)
    iterated,   \* the order in which the status-code map was ranged over
    classes     \* the returned []*sp.ResponseClass

vars == <<pc, openAPI, swagger, routes, written, err, trace,
          path, escaped, pathRegex, responses, iterated, classes>>

renderVars == <<pc, openAPI, swagger, routes, written, err, trace>>
regexVars  == <<path, escaped, pathRegex>>
rspVars    == <<responses, iterated, classes>>

----------------------------------------------------------------------------
(* Bounds of the model *)

\* longest path template pathToRegex is applied to
MaxLen == 5
\* longest request path the produced pattern is matched against
MaxReqLen == 4
\* most operations one OpenAPI document declares
MaxOps == 2

----------------------------------------------------------------------------
(* Generic helpers *)

Nil == <<>>
Some(x) == <<x>>
IsNil(p) == Len(p) = 0
Deref(p) == p[1]

Min(S) == CHOOSE x \in S : \A y \in S : x <= y

Range(s) == {s[i] : i \in 1..Len(s)}

\* all orders in which the keys S of a Go map can be ranged over
RECURSIVE Perms(_)
Perms(S) ==
    IF S = {} THEN {<<>>}
    ELSE UNION {{<<x>> \o q : q \in Perms(S \ {x})} : x \in S}

\* all strings over alphabet A of length at most n
RECURSIVE StringsUpTo(_, _)
StringsUpTo(A, n) ==
    IF n = 0 THEN {<<>>}
    ELSE LET shorter == StringsUpTo(A, n - 1)
         IN  shorter \cup {Append(s, c) : s \in {t \in shorter : Len(t) = n - 1}, c \in A}

----------------------------------------------------------------------------
(* pathToRegex: regexp.QuoteMeta, then pathParamRegex.ReplaceAllLiteralString *)

\* variant: '.' left unescaped
QuoteMetaSpecial_NoDot ==
    {"\\", "+", "*", "?", "(", ")", "|", "[", "]", "{", "}", "^", "$"}

\* the characters regexp.QuoteMeta escapes: \.+*?()|[]{}^$
QuoteMetaSpecial ==
    {"\\", ".", "+", "*", "?", "(", ")", "|", "[", "]", "{", "}", "^", "$"}

RECURSIVE QuoteMeta(_)
QuoteMeta(s) ==
    IF s = <<>> THEN <<>>
    ELSE (IF Head(s) \in QuoteMetaSpecial THEN <<"\\", Head(s)>> ELSE <<Head(s)>>)
         \o QuoteMeta(Tail(s))

\* the replacement literal "[^/]*"
Wildcard == <<"[", "^", "/", "]", "*">>

\* variant: a greedy interior, running to the last closing brace
pathParamRegex_Greedy(s, i) ==
    IF i + 1 <= Len(s) /\ s[i] = "\\" /\ s[i + 1] = "{"
    THEN LET closes == {k \in (i + 2)..Len(s) : s[k] = "}" /\ s[k - 1] = "\\" /\ k - 1 >= i + 2}
         IN  IF closes = {} THEN 0
             ELSE CHOOSE k \in closes : \A l \in closes : l <= k
    ELSE 0

\* pathParamRegex = `\\{[^\}]*\\}`: a backslash, '{', any run of characters
\* other than '}', a backslash, '}'.  The index where the match starting at
\* i ends, 0 when no match starts at i.  The run cannot cross a '}', so a
\* match ends at the first '}' after the opening pair, and the character
\* before that '}' must be the backslash the run gives back.
pathParamRegex(s, i) ==
    IF i + 1 <= Len(s) /\ s[i] = "\\" /\ s[i + 1] = "{"
    THEN LET closes == {k \in (i + 2)..Len(s) : s[k] = "}"}
         IN  IF closes = {} THEN 0
             ELSE LET k == Min(closes)
                  IN  IF k - 1 >= i + 2 /\ s[k - 1] = "\\" THEN k ELSE 0
    ELSE 0

\* the leftmost non-overlapping matches of pathParamRegex in s from i on,
\* as <<first, last>> index pairs
RECURSIVE FindAllIndex(_, _)
FindAllIndex(s, i) ==
    IF i > Len(s) THEN <<>>
    ELSE LET e == pathParamRegex(s, i)
         IN  IF e # 0 THEN <<<<i, e>>>> \o FindAllIndex(s, e + 1)
             ELSE FindAllIndex(s, i + 1)

\* every match replaced by repl, everything else copied
RECURSIVE ReplaceFrom(_, _, _)
ReplaceFrom(s, i, repl) ==
    IF i > Len(s) THEN <<>>
    ELSE LET e == pathParamRegex(s, i)
         IN  IF e # 0 THEN repl \o ReplaceFrom(s, e + 1, repl)
             ELSE <<s[i]>> \o ReplaceFrom(s, i + 1, repl)

ReplaceAllLiteralString(s, repl) == ReplaceFrom(s, 1, repl)

pathToRegex(p) == ReplaceAllLiteralString(QuoteMeta(p), Wildcard)

----------------------------------------------------------------------------
(* toRspClasses *)

\* uint32(status): the low 32 bits of the int, kept as two 16-bit halves
\* (the value is hi16 * 65536 + lo16)
uint32(n) == [hi16 |-> ((n - (n % 65536)) \div 65536) % 65536, lo16 |-> n % 65536]

\* variant: 500 itself not a failure
IsFailure_Above500(status) == status > 500

\* IsFailure: status >= 500
IsFailure(status) == status >= 500

\* sort.Ints
RECURSIVE InsertInt(_, _)
InsertInt(x, sorted) ==
    IF sorted = <<>> THEN <<x>>
    ELSE IF x <= Head(sorted) THEN <<x>> \o sorted
    ELSE <<Head(sorted)>> \o InsertInt(x, Tail(sorted))

RECURSIVE InsertionSortInts(_)
InsertionSortInts(s) ==
    IF s = <<>> THEN <<>> ELSE InsertInt(Head(s), InsertionSortInts(Tail(s)))

\* variant: the statuses left in map order
SortInts_Unsorted(s) == s

SortInts(s) == InsertionSortInts(s)

\* rsp is the *spec.Responses (Nil, or Some(the key set of StatusCodeResponses));
\* ranged is the order in which `range responses.StatusCodeResponses` yields
\* the keys.  A nil result and an empty slice are both the empty list.
toRspClasses(rsp, ranged) ==
    IF IsNil(rsp) THEN <<>>
    ELSE LET statuses == SortInts(ranged)
         IN  [i \in 1..Len(statuses) |->
                 [Condition |-> [Status |-> [Min |-> uint32(statuses[i]),
                                             Max |-> uint32(statuses[i])]],
                  IsFailure |-> IsFailure(statuses[i])]]

\* the orders in which the status-code map of rsp can be ranged over
RangeOrders(rsp) == IF IsNil(rsp) THEN {<<>>} ELSE Perms(Deref(rsp))

----------------------------------------------------------------------------
(* renderOpenAPI: the route list *)

\* net/http: MethodDelete, MethodGet, MethodHead, MethodOptions, MethodPatch,
\* MethodPost, MethodPut
MethodDelete == <<"D", "E", "L", "E", "T", "E">>
MethodGet == <<"G", "E", "T">>
MethodHead == <<"H", "E", "A", "D">>
MethodOptions == <<"O", "P", "T", "I", "O", "N", "S">>
MethodPatch == <<"P", "A", "T", "C", "H">>
MethodPost == <<"P", "O", "S", "T">>
MethodPut == <<"P", "U", "T">>

\* the byte of a character of a path template
Byte(c) ==
    CASE c = "." -> 46 [] c = "/" -> 47 [] c = "B" -> 66 [] c = "\\" -> 92
      [] c = "a" -> 97 [] c = "d" -> 100 [] c = "g" -> 103 [] c = "i" -> 105
      [] c = "n" -> 110 [] c = "p" -> 112 [] c = "{" -> 123 [] c = "}" -> 125

\* Go's string comparison a < b: byte by byte, a proper prefix first
StrLess(a, b) ==
    LET n == IF Len(a) < Len(b) THEN Len(a) ELSE Len(b)
        diff == {i \in 1..n : a[i] # b[i]}
    IN  IF diff = {} THEN Len(a) < Len(b)
        ELSE Byte(a[Min(diff)]) < Byte(b[Min(diff)])

\* sort.Strings
RECURSIVE InsertString(_, _)
InsertString(x, sorted) ==
    IF sorted = <<>> THEN <<x>>
    ELSE IF ~StrLess(Head(sorted), x) THEN <<x>> \o sorted
    ELSE <<Head(sorted)>> \o InsertString(x, Tail(sorted))

RECURSIVE InsertionSortStrings(_)
InsertionSortStrings(s) ==
    IF s = <<>> THEN <<>> ELSE InsertString(Head(s), InsertionSortStrings(Tail(s)))

\* variant: the paths left in map order
SortStrings_Unsorted(s) == s

SortStrings(s) == InsertionSortStrings(s)

toReqMatch(p, method) == [PathRegex |-> p, Method |-> method]

\* variant: the rule named after the translated pattern
mkRouteSpec_NameFromRegex(p, pathRegexOfP, method, rsp, ranged) ==
    [Name |-> method \o <<" ">> \o pathRegexOfP,
     Condition |-> toReqMatch(pathRegexOfP, method),
     ResponseClasses |-> toRspClasses(rsp, ranged)]

\* fmt.Sprintf("%s %s", method, path) is method, one space, path
mkRouteSpec(p, pathRegexOfP, method, rsp, ranged) ==
    [Name |-> method \o <<" ">> \o p,
     Condition |-> toReqMatch(pathRegexOfP, method),
     ResponseClasses |-> toRspClasses(rsp, ranged)]

\* the path keys of the document; none when swagger.Paths is nil
PathKeysOf(sw) == IF IsNil(sw.Paths) THEN {} ELSE DOMAIN Deref(sw.Paths).Paths

OperationFields == {"Delete", "Get", "Head", "Options", "Patch", "Post", "Put"}

\* the (path, PathItem field) pairs whose operation pointer is not nil
DeclaredOps(sw) ==
    {k \in PathKeysOf(sw) \X OperationFields : ~IsNil(Deref(sw.Paths).Paths[k[1]][k[2]])}

ResponsesOf(sw, k) == Deref(Deref(sw.Paths).Paths[k[1]][k[2]]).Responses

\* one order for the status-code map of every declared operation
OpRangeOrders(sw) ==
    LET D == DeclaredOps(sw)
        all == UNION {RangeOrders(ResponsesOf(sw, k)) : k \in D}
    IN  {f \in [D -> all] : \A k \in D : f[k] \in RangeOrders(ResponsesOf(sw, k))}

\* one `if item.X != nil { routes = append(routes, mkRouteSpec(...)) }`
RouteIfDeclared(p, pathRegexOfP, method, item, field, rangedOf) ==
    IF ~IsNil(item[field])
    THEN <<mkRouteSpec(p, pathRegexOfP, method, Deref(item[field]).Responses,
                       rangedOf[<<p, field>>])>>
    ELSE <<>>

\* variant: the HEAD operation forgotten
RoutesOfPath_NoHead(p, item, rangedOf) ==
    LET r == pathToRegex(p)
    IN  RouteIfDeclared(p, r, MethodDelete, item, "Delete", rangedOf)
        \o RouteIfDeclared(p, r, MethodGet, item, "Get", rangedOf)
        \o RouteIfDeclared(p, r, MethodOptions, item, "Options", rangedOf)
        \o RouteIfDeclared(p, r, MethodPatch, item, "Patch", rangedOf)
        \o RouteIfDeclared(p, r, MethodPost, item, "Post", rangedOf)
        \o RouteIfDeclared(p, r, MethodPut, item, "Put", rangedOf)

\* the body of `for _, path := range paths`
RoutesOfPath(p, item, rangedOf) ==
    LET r == pathToRegex(p)
    IN  RouteIfDeclared(p, r, MethodDelete, item, "Delete", rangedOf)
        \o RouteIfDeclared(p, r, MethodGet, item, "Get", rangedOf)
        \o RouteIfDeclared(p, r, MethodHead, item, "Head", rangedOf)
        \o RouteIfDeclared(p, r, MethodOptions, item, "Options", rangedOf)
        \o RouteIfDeclared(p, r, MethodPatch, item, "Patch", rangedOf)
        \o RouteIfDeclared(p, r, MethodPost, item, "Post", rangedOf)
        \o RouteIfDeclared(p, r, MethodPut, item, "Put", rangedOf)

RECURSIVE RoutesOfPaths(_, _, _)
RoutesOfPaths(paths, sw, rangedOf) ==
    IF paths = <<>> THEN <<>>
    ELSE RoutesOfPath(Head(paths), Deref(sw.Paths).Paths[Head(paths)], rangedOf)
         \o RoutesOfPaths(Tail(paths), sw, rangedOf)

\* keyOrder is the order in which `range swagger.Paths.Paths` yields the
\* keys, rangedOf the order in which each status-code map is ranged over
EnumerateRoutes(sw, keyOrder, rangedOf) ==
    LET paths == IF ~IsNil(sw.Paths) THEN SortStrings(keyOrder) ELSE <<>>
    IN  RoutesOfPaths(paths, sw, rangedOf)

\* the ServiceProfile handed to yaml.Marshal
Profile(rs) ==
    [APIVersion |-> "linkerd.io/v1alpha1", Kind |-> "ServiceProfile", Routes |-> rs]

----------------------------------------------------------------------------
(* How a consumer of the profile reads a produced pattern: as a regular     *)
(* expression that has to match the whole request path.                     *)

\* the pattern as a sequence of tokens: the wildcard segment [^/]*, an
\* escaped character (matches itself), a bare '.' (matches any character),
\* any other character (matches itself)
RECURSIVE Tokenize(_)
Tokenize(p) ==
    IF p = <<>> THEN <<>>
    ELSE IF Len(p) >= 5 /\ SubSeq(p, 1, 5) = Wildcard
         THEN <<[kind |-> "wild", ch |-> "/"]>> \o Tokenize(SubSeq(p, 6, Len(p)))
    ELSE IF Len(p) >= 2 /\ p[1] = "\\"
         THEN <<[kind |-> "lit", ch |-> p[2]]>> \o Tokenize(SubSeq(p, 3, Len(p)))
    ELSE IF p[1] = "."
         THEN <<[kind |-> "any", ch |-> "."]>> \o Tokenize(Tail(p))
    ELSE <<[kind |-> "lit", ch |-> p[1]]>> \o Tokenize(Tail(p))

RECURSIVE MatchTokens(_, _)
MatchTokens(toks, r) ==
    IF toks = <<>> THEN r = <<>>
    ELSE LET t == Head(toks)
         IN  IF t.kind = "wild"
             THEN \E k \in 0..Len(r) :
                     /\ \A i \in 1..k : r[i] # "/"
                     /\ MatchTokens(Tail(toks), SubSeq(r, k + 1, Len(r)))
             ELSE /\ r # <<>>
                  /\ t.kind = "lit" => Head(r) = t.ch
                  /\ MatchTokens(Tail(toks), Tail(r))

Matches(pattern, r) == MatchTokens(Tokenize(pattern), r)

----------------------------------------------------------------------------
(* Inputs of pathToRegex *)

TemplateChars == {"/", ".", "a", "\\", "{", "}"}
RequestChars == {"/", ".", "a"}

BooksTemplate ==
    <<"/", "b", "o", "o", "k", "s", "/", "{", "i", "d", "}", ".", "j", "s", "o", "n">>
AdjacentTemplate == <<"{", "a", "}", "{", "b", "}">>
NestedTemplate == <<"/", "{", "a", "/", "{", "b", "}">>

BooksRequest ==
    <<"/", "b", "o", "o", "k", "s", "/", "1", "2", "3", ".", "j", "s", "o", "n">>
BooksExtraRequest ==
    <<"/", "b", "o", "o", "k", "s", "/", "1", "2", "3", "/",
      "e", "x", "t", "r", "a", ".", "j", "s", "o", "n">>

Templates ==
    StringsUpTo(TemplateChars, MaxLen) \cup {BooksTemplate, AdjacentTemplate, NestedTemplate}
RequestPaths ==
    StringsUpTo(RequestChars, MaxReqLen) \cup {BooksRequest, BooksExtraRequest}

----------------------------------------------------------------------------
(* Values of the variables a specification does not use *)

RenderIdle ==
    /\ pc = "idle" /\ openAPI = "-" /\ swagger = [Paths |-> Nil]
    /\ routes = <<>> /\ written = <<>> /\ err = "" /\ trace = <<>>
RegexIdle == path = <<>> /\ escaped = Nil /\ pathRegex = Nil
RspIdle == responses = Nil /\ iterated = <<>> /\ classes = Nil

----------------------------------------------------------------------------
(* SpecRegex: pathToRegex applied to every template of the bounded set *)

InitRegex ==
    /\ path \in Templates
    /\ escaped = Nil
    /\ pathRegex = Nil
    /\ RenderIdle
    /\ RspIdle

CallPathToRegex ==
    /\ pathRegex = Nil
    /\ escaped' = Some(QuoteMeta(path))
    /\ pathRegex' = Some(pathToRegex(path))
    /\ UNCHANGED <<path, renderVars, rspVars>>

NextRegex == CallPathToRegex

SpecRegex == InitRegex /\ [][NextRegex]_vars

----------------------------------------------------------------------------
(* Properties of pathToRegex *)

\* braces balanced and not nested
RECURSIVE WellFormedFrom(_, _)
WellFormedFrom(t, open) ==
    IF t = <<>> THEN ~open
    ELSE IF Head(t) = "{" THEN ~open /\ WellFormedFrom(Tail(t), TRUE)
    ELSE IF Head(t) = "}" THEN open /\ WellFormedFrom(Tail(t), FALSE)
    ELSE WellFormedFrom(Tail(t), open)

WellFormed(t) == WellFormedFrom(t, FALSE)

EscapeChar(c) == IF c \in {"\\", ".", "+", "*", "?", "(", ")", "|", "[", "]", "{", "}", "^", "$"}
                 THEN <<"\\", c>> ELSE <<c>>

\* position of the first '}' of t
FirstClose(t) == Min({k \in 1..Len(t) : t[k] = "}"})

\* the translation a well-formed template is meant to have: each placeholder
\* one wildcard, each other character escaped
RECURSIVE Translate(_)
Translate(t) ==
    IF t = <<>> THEN <<>>
    ELSE IF Head(t) = "{"
         THEN Wildcard \o Translate(SubSeq(t, FirstClose(t) + 1, Len(t)))
         ELSE EscapeChar(Head(t)) \o Translate(Tail(t))

\* r is t with every placeholder filled by a string without '/'
RECURSIVE IsInstance(_, _)
IsInstance(t, r) ==
    IF t = <<>> THEN r = <<>>
    ELSE IF Head(t) = "{"
         THEN \E k \in 0..Len(r) :
                 /\ \A i \in 1..k : r[i] # "/"
                 /\ IsInstance(SubSeq(t, FirstClose(t) + 1, Len(t)), SubSeq(r, k + 1, Len(r)))
         ELSE r # <<>> /\ Head(r) = Head(t) /\ IsInstance(Tail(t), Tail(r))

\* C7: for a template with balanced, non-nested braces pathToRegex returns
\* the template with every placeholder replaced as a unit by one wildcard
\* token and every other character escaped; without braces that is exactly
\* the escaped template.
C7_PlaceholdersBecomeWildcards ==
    (pathRegex # Nil /\ WellFormed(path)) =>
        /\ Deref(pathRegex) = Translate(path)
        /\ ("{" \notin Range(path)) => Deref(pathRegex) = Deref(escaped)

C7_Witness ==
    /\ path = AdjacentTemplate
    /\ pathRegex = Some(Wildcard \o Wildcard)

\* C8: the pattern of a well-formed template matches exactly the request
\* paths obtained by filling each placeholder with a string without '/'.
C8_MatchesExactlyInstances ==
    (pathRegex # Nil /\ WellFormed(path)) =>
        \A r \in RequestPaths : Matches(Deref(pathRegex), r) <=> IsInstance(path, r)

C8_Witness ==
    /\ path = BooksTemplate
    /\ pathRegex # Nil
    /\ Matches(Deref(pathRegex), BooksRequest)
    /\ ~Matches(Deref(pathRegex), BooksExtraRequest)

\* C10: every span pathToRegex replaces by a wildcard runs from a '{' to a
\* '}' and has neither '{' nor '}' in its interior.
C10_ReplacedSpansBraceFree ==
    escaped # Nil =>
        LET e == Deref(escaped)
            m == FindAllIndex(e, 1)
        IN  \A n \in 1..Len(m) :
                \A k \in (m[n][1] + 2)..(m[n][2] - 2) : e[k] \notin {"{", "}"}

----------------------------------------------------------------------------
(* SpecRsp: toRspClasses applied to every responses collection of the       *)
(* bounded set, its map ranged over in every order                          *)

\* StatusCodeResponses is keyed by Go int: any integer key of the document's
\* responses object is a status code, -1 included
StatusCodes == {-1, 200, 404, 499, 500, 503}

ResponsesInputs == {Nil} \cup {Some(S) : S \in SUBSET StatusCodes}

InitRsp ==
    /\ responses \in ResponsesInputs
    /\ iterated = <<>>
    /\ classes = Nil
    /\ RenderIdle
    /\ RegexIdle

CallToRspClasses ==
    /\ classes = Nil
    /\ \E ranged \in RangeOrders(responses) :
          /\ iterated' = ranged
          /\ classes' = Some(toRspClasses(responses, ranged))
    /\ UNCHANGED <<responses, renderVars, regexVars>>

NextRsp == CallToRspClasses

SpecRsp == InitRsp /\ [][NextRsp]_vars

----------------------------------------------------------------------------
(* Properties of toRspClasses *)

\* the declared status codes of a responses collection
DeclaredCodes(rsp) == IF IsNil(rsp) THEN {} ELSE Deref(rsp)

\* the codes of S in ascending order
RECURSIVE Ascending(_)
Ascending(S) ==
    IF S = {} THEN <<>>
    ELSE LET least == CHOOSE x \in S : \A y \in S : x <= y
         IN  <<least>> \o Ascending(S \ {least})

\* the uint32 u holds the number n
HoldsNumber(u, n) == n >= 0 /\ u.hi16 = n \div 65536 /\ u.lo16 = n % 65536

\* C4: the class of a declared status code is a failure class if and only
\* if that code is 500 or greater.
C4_FailureIffAtLeast500 ==
    classes # Nil =>
        LET asc == Ascending(DeclaredCodes(responses))
            cls == Deref(classes)
        IN  /\ Len(cls) = Len(asc)
            /\ \A i \in 1..Len(cls) : cls[i].IsFailure <=> asc[i] >= 500

C4_Witness ==
    /\ responses = Some({200, 404, 499, 500, 503})
    /\ classes # Nil
    /\ [i \in 1..5 |-> Deref(classes)[i].IsFailure] = <<FALSE, FALSE, FALSE, TRUE, TRUE>>

\* C5: toRspClasses returns one class per distinct declared code, in
\* ascending order of code, each with min = max = that code; with no
\* responses declared the list is empty.
C5_OneClassPerCode ==
    classes # Nil =>
        LET asc == Ascending(DeclaredCodes(responses))
            cls == Deref(classes)
        IN  /\ Len(cls) = Len(asc)
            /\ \A i \in 1..Len(cls) :
                  /\ HoldsNumber(cls[i].Condition.Status.Min, asc[i])
                  /\ HoldsNumber(cls[i].Condition.Status.Max, asc[i])

----------------------------------------------------------------------------
(* Inputs of renderOpenAPI: the documents swagger.UnmarshalJSON can return  *)

PingPath == <<"/", "p", "i", "n", "g">>
UpperPath == <<"/", "B">>
ParamPath == <<"/", "a", "/", "{", "i", "d", "}">>

PathKeys == {PingPath, UpperPath, ParamPath}

\* the responses an operation declares: none, or the codes 200 and 500
ResponsesOptions == {Nil, Some({200, 500})}

RECURSIVE SubsetsUpTo(_, _)
SubsetsUpTo(S, n) ==
    IF n = 0 THEN {{}}
    ELSE LET smaller == SubsetsUpTo(S, n - 1)
         IN  smaller \cup {T \cup {x} : T \in smaller, x \in S}

\* the document with path keys present, operations D and responses rsp
Document(present, D, rsp) ==
    [Paths |-> Some([Paths |->
        [p \in present |->
            [f \in OperationFields |->
                IF <<p, f>> \in D THEN Some([Responses |-> rsp[<<p, f>>]]) ELSE Nil]]])]

\* the sets of declared operations, and the path keys a document declaring
\* D can have (a path item may declare no operation at all)
OperationSets == SubsetsUpTo(PathKeys \X OperationFields, MaxOps)
PathKeySets(D) == {P \in SUBSET PathKeys : {k[1] : k \in D} \subseteq P}

----------------------------------------------------------------------------
(* Spec: one invocation of renderOpenAPI, stage by stage *)

Init ==
    /\ pc = "Open"
    /\ openAPI \in {"-", "web-svc.swagger"}
    /\ swagger = [Paths |-> Nil]
    /\ routes = <<>>
    /\ written = <<>>
    /\ err = ""
    /\ trace = <<>>
    /\ RegexIdle
    /\ RspIdle

\* input = os.Stdin, or os.Open(options.openAPI)
Open ==
    /\ pc = "Open"
    /\ \/ /\ openAPI = "-"
          /\ pc' = "ReadAll"
          /\ UNCHANGED <<err, trace>>
       \/ /\ openAPI # "-"
          /\ trace' = Append(trace, "Open")
          /\ \/ pc' = "ReadAll" /\ UNCHANGED err
             \/ pc' = "return" /\ err' = "open failed"
    /\ UNCHANGED <<openAPI, swagger, routes, written, regexVars, rspVars>>

ReadAll ==
    /\ pc = "ReadAll"
    /\ trace' = Append(trace, "ReadAll")
    /\ \/ pc' = "YAMLToJSON" /\ UNCHANGED err
       \/ pc' = "return" /\ err' = "Error reading file"
    /\ UNCHANGED <<openAPI, swagger, routes, written, regexVars, rspVars>>

YAMLToJSON ==
    /\ pc = "YAMLToJSON"
    /\ trace' = Append(trace, "YAMLToJSON")
    /\ \/ pc' = "UnmarshalJSON" /\ UNCHANGED err
       \/ pc' = "return" /\ err' = "Error parsing yaml"
    /\ UNCHANGED <<openAPI, swagger, routes, written, regexVars, rspVars>>

UnmarshalJSON ==
    /\ pc = "UnmarshalJSON"
    /\ trace' = Append(trace, "UnmarshalJSON")
    /\ \/ /\ \/ swagger' = [Paths |-> Nil]
             \/ \E D \in OperationSets :
                   \E present \in PathKeySets(D), rsp \in [D -> ResponsesOptions] :
                       swagger' = Document(present, D, rsp)
          /\ pc' = "Routes"
          /\ UNCHANGED err
       \/ /\ pc' = "return"
          /\ err' = "Error parsing OpenAPI spec"
          /\ UNCHANGED swagger
    /\ UNCHANGED <<openAPI, routes, written, regexVars, rspVars>>

\* the profile, the sorted paths and the loop over them
Routes ==
    /\ pc = "Routes"
    /\ trace' = Append(trace, "Routes")
    /\ \E keyOrder \in Perms(PathKeysOf(swagger)), rangedOf \in OpRangeOrders(swagger) :
          routes' = EnumerateRoutes(swagger, keyOrder, rangedOf)
    /\ pc' = "Marshal"
    /\ UNCHANGED <<openAPI, swagger, written, err, regexVars, rspVars>>

\* variant: a failed yaml.Marshal that goes on to w.Write
Marshal_WriteOnError ==
    /\ pc = "Marshal"
    /\ trace' = Append(trace, "Marshal")
    /\ \/ pc' = "Write" /\ UNCHANGED err
       \/ pc' = "Write" /\ err' = "Error writing Service Profile"
    /\ UNCHANGED <<openAPI, swagger, routes, written, regexVars, rspVars>>

Marshal ==
    /\ pc = "Marshal"
    /\ trace' = Append(trace, "Marshal")
    /\ \/ pc' = "Write" /\ UNCHANGED err
       \/ pc' = "return" /\ err' = "Error writing Service Profile"
    /\ UNCHANGED <<openAPI, swagger, routes, written, regexVars, rspVars>>

Write ==
    /\ pc = "Write"
    /\ trace' = Append(trace, "Write")
    /\ written' = Append(written, Profile(routes))
    /\ pc' = "return"
    /\ UNCHANGED <<openAPI, swagger, routes, err, regexVars, rspVars>>

Next == Open \/ ReadAll \/ YAMLToJSON \/ UnmarshalJSON \/ Routes \/ Marshal \/ Write

Spec == Init /\ [][Next]_vars

----------------------------------------------------------------------------
(* Properties of renderOpenAPI *)

\* the loop over the paths has run
RoutesBuilt == \E i \in 1..Len(trace) : trace[i] = "Routes"

\* the methods in the order DELETE, GET, HEAD, OPTIONS, PATCH, POST, PUT
CanonicalMethods ==
    << <<"D", "E", "L", "E", "T", "E">>, <<"G", "E", "T">>, <<"H", "E", "A", "D">>,
       <<"O", "P", "T", "I", "O", "N", "S">>, <<"P", "A", "T", "C", "H">>,
       <<"P", "O", "S", "T">>, <<"P", "U", "T">> >>

MethodRank(m) == CHOOSE i \in 1..Len(CanonicalMethods) : CanonicalMethods[i] = m

\* the uppercase method of a document's operation field
UpperMethod(field) ==
    CASE field = "Delete" -> CanonicalMethods[1] [] field = "Get" -> CanonicalMethods[2]
      [] field = "Head" -> CanonicalMethods[3] [] field = "Options" -> CanonicalMethods[4]
      [] field = "Patch" -> CanonicalMethods[5] [] field = "Post" -> CanonicalMethods[6]
      [] field = "Put" -> CanonicalMethods[7]

\* the (path, method) pairs for which the document declares an operation
DeclaredPairs(sw) == {<<k[1], UpperMethod(k[2])>> : k \in DeclaredOps(sw)}

\* ascending lexicographic order of the bytes
RECURSIVE LexLess(_, _)
LexLess(a, b) ==
    IF b = <<>> THEN FALSE
    ELSE IF a = <<>> THEN TRUE
    ELSE IF Head(a) = Head(b) THEN LexLess(Tail(a), Tail(b))
    ELSE Byte(Head(a)) < Byte(Head(b))

\* what follows "<method> " in a rule's name
RoutePath(r) == SubSeq(r.Name, Len(r.Condition.Method) + 2, Len(r.Name))

\* C1: the route list is ordered by path template in ascending byte order
\* and, among routes of one path, by method in the order DELETE, GET, HEAD,
\* OPTIONS, PATCH, POST, PUT.
C1_RoutesOrdered ==
    RoutesBuilt =>
        \A i, j \in 1..Len(routes) :
            i < j =>
                \/ LexLess(RoutePath(routes[i]), RoutePath(routes[j]))
                \/ /\ RoutePath(routes[i]) = RoutePath(routes[j])
                   /\ MethodRank(routes[i].Condition.Method)
                        < MethodRank(routes[j].Condition.Method)

C1_Witness ==
    /\ RoutesBuilt
    /\ Len(routes) = 2
    /\ RoutePath(routes[1]) = UpperPath
    /\ RoutePath(routes[2]) = ParamPath

\* C2: the route list has exactly one rule for each declared (path, method)
\* pair and none for any other pair; with no paths the list is empty,
\* building it raises no error and the completed run has written the
\* artifact with the empty list.
C2_OneRulePerOperation ==
    RoutesBuilt =>
        LET declared == DeclaredPairs(swagger)
            pairOf(r) == <<RoutePath(r), r.Condition.Method>>
        IN  /\ Len(routes) = Cardinality(declared)
            /\ \A i \in 1..Len(routes) : pairOf(routes[i]) \in declared
            /\ \A d \in declared :
                  Cardinality({i \in 1..Len(routes) : pairOf(routes[i]) = d}) = 1
            /\ PathKeysOf(swagger) = {} =>
                  /\ routes = <<>>
                  /\ err \in {"", "Error writing Service Profile"}
                  /\ (pc = "return" /\ err = "") => written = <<Profile(<<>>)>>

C2_Witness ==
    /\ RoutesBuilt
    /\ PathKeysOf(swagger) = PathKeys
    /\ Cardinality(DeclaredPairs(swagger)) = 2
    /\ Len(routes) = 2
    /\ RoutePath(routes[1]) = RoutePath(routes[2])
    /\ routes[1].Condition.Method = MethodHead
    /\ routes[2].Condition.Method = MethodPut

\* the empty paths collection: a completed run with the empty route list
C2_WitnessNoPaths ==
    /\ swagger.Paths # Nil
    /\ PathKeysOf(swagger) = {}
    /\ pc = "return" /\ err = "" /\ written = <<Profile(<<>>)>>

\* C3: the rule of a declared pair (path, method) is named method, one
\* space, the untranslated path; its condition carries that method and the
\* translated pattern of that path; no two rules have the same name.
C3_NameAndCondition ==
    RoutesBuilt =>
        /\ \A i \in 1..Len(routes) :
              \E d \in DeclaredPairs(swagger) :
                  /\ routes[i].Name = d[2] \o <<" ">> \o d[1]
                  /\ routes[i].Condition.Method = d[2]
                  /\ routes[i].Condition.PathRegex = Translate(d[1])
        /\ \A i, j \in 1..Len(routes) : routes[i].Name = routes[j].Name => i = j

C3_Witness ==
    /\ RoutesBuilt
    /\ \E i \in 1..Len(routes) :
          /\ routes[i].Name = <<"G", "E", "T", " ", "/", "p", "i", "n", "g">>
          /\ routes[i].Condition = [PathRegex |-> PingPath, Method |-> MethodGet]
          /\ routes[i].ResponseClasses =
                << [Condition |-> [Status |-> [Min |-> uint32(200), Max |-> uint32(200)]],
                    IsFailure |-> FALSE],
                   [Condition |-> [Status |-> [Min |-> uint32(500), Max |-> uint32(500)]],
                    IsFailure |-> TRUE] >>
    /\ \E i \in 1..Len(routes) :
          /\ RoutePath(routes[i]) = ParamPath
          /\ routes[i].Condition.PathRegex # ParamPath

\* C6: whatever the order in which the paths map and the status-code maps
\* are ranged over, the route list is the one this run produced.
C6_IterationOrderIrrelevant ==
    pc = "Marshal" =>
        \A keyOrder \in Perms(PathKeysOf(swagger)), rangedOf \in OpRangeOrders(swagger) :
            EnumerateRoutes(swagger, keyOrder, rangedOf) = routes

C6_Witness ==
    /\ pc = "Marshal"
    /\ Cardinality(PathKeysOf(swagger)) = 3
    /\ Cardinality(OpRangeOrders(swagger)) >= 4
    /\ Len(routes) >= 2
    /\ RoutePath(routes[1]) # RoutePath(routes[2])

StageOrder ==
    <<"Open", "ReadAll", "YAMLToJSON", "UnmarshalJSON", "Routes", "Marshal", "Write">>

\* the stages a complete run goes through: reading stdin opens no file
StagesOfRun == IF openAPI = "-" THEN Tail(StageOrder) ELSE StageOrder

\* the stage an error message comes from
StageOfError(e) ==
    CASE e = "open failed" -> "Open"
      [] e = "Error reading file" -> "ReadAll"
      [] e = "Error parsing yaml" -> "YAMLToJSON"
      [] e = "Error parsing OpenAPI spec" -> "UnmarshalJSON"
      [] e = "Error writing Service Profile" -> "Marshal"

\* C9: the stages run in order, each at most once; a failing stage ends the
\* run with nothing written; the artifact is written exactly once, only
\* after every stage has succeeded.
C9_StagesInOrderFailFast ==
    /\ Len(trace) <= Len(StagesOfRun)
    /\ trace = SubSeq(StagesOfRun, 1, Len(trace))
    /\ err # "" =>
          /\ pc = "return"
          /\ written = <<>>
          /\ trace[Len(trace)] = StageOfError(err)
    /\ Len(written) <= 1
    /\ written # <<>> => (err = "" /\ trace = StagesOfRun /\ written = <<Profile(routes)>>)
    /\ (pc = "return" /\ err = "") => Len(written) = 1

C9_Witness ==
    /\ openAPI # "-"
    /\ pc = "return"
    /\ err = "Error writing Service Profile"
    /\ trace = SubSeq(StageOrder, 1, 6)
    /\ written = <<>>

====
